---- MODULE Spec2Model ----
(***************************************************************************)
(* Model of the realtime chat client core of working-bot:                  *)
(*   - the useWebSocket hook (frontend/src/hooks/useWebSocket.ts): the     *)
(*     connection lifecycle, reconnect timers, heartbeat, outbound queue;  *)
(*   - the message reconciliation of ChatWindow                            *)
(*     (frontend/src/components/ChatWindow.tsx): allMessages and           *)
(*     uniqueMessages.                                                     *)
(***************************************************************************)
EXTENDS Integers, Sequences, FiniteSets, TLC

(***************************************************************************)
(* Bounds of the model.                                                    *)
(***************************************************************************)
\* sockets constructed in the connection life-cycle specification
MaxSockets == 3
\* sockets constructed in the automatic-reconnection specification
RetrySockets == 6
\* sockets constructed in the outbound-queue specification
QueueSockets == 2
\* messages submitted through sendMessage
MaxMsgs == 2
\* records a render reconciles: fetched history plus store snapshot
MaxMerged == 3
\* sockets constructed in the unreachable-server specification
StormSockets == 8
\* sockets constructed in the inbound-store specification
StoreSockets == 2
\* frames delivered between two clearMessages in the inbound-store
\* specification
MaxFrames == 3
\* MAX_MESSAGE_LENGTH (4000 in the source), in the scale of the model
MAX_MESSAGE_LENGTH == 2
\* MAX_MESSAGES_BUFFER (1000 in the source), in the scale of the model
MAX_MESSAGES_BUFFER == 2

(***************************************************************************)
(* Program constants.                                                      *)
(***************************************************************************)
MAX_RECONNECT_ATTEMPTS == 5
RECONNECT_INTERVALS == <<1000, 2000, 5000, 10000, 30000>>

\* close codes a close event can carry: clean closure, abnormal closure
\* (standing for every retryable code), authentication rejection, rate limit
NORMAL_CLOSURE == 1000
ABNORMAL_CLOSURE == 1006
AUTH_REJECTED == 4001
RATE_LIMITED == 4003
CloseCodes == {NORMAL_CLOSURE, ABNORMAL_CLOSURE, AUTH_REJECTED, RATE_LIMITED}

\* the targets the hook can be given: no url, a url the URL constructor
\* rejects, and the urls of two chats
Chats == {"A", "B"}
Urls == {"none", "bad"} \cup Chats

(***************************************************************************)
(* Text.  A string is a sequence of characters.                            *)
(***************************************************************************)
\* the characters of message content: the five HTML-significant characters,
\* a letter and a blank
Chars == {"<", ">", "\"", "'", "&", "a", " "}

HtmlSignificant == {"<", ">", "\"", "'", "&"}

\* sequences over S of length at most n
SeqsUpTo(S, n) == UNION {[1..k -> S] : k \in 0..n}

\* the strings a peer or a caller can supply as content: every string up to
\* one character over the limit
Strings == SeqsUpTo(Chars, MAX_MESSAGE_LENGTH + 1)

RECURSIVE replace(_, _, _)
\* text.replace(/c/g, replacement)
replace(text, c, replacement) ==
  IF text = <<>> THEN <<>>
  ELSE (IF Head(text) = c THEN replacement ELSE <<Head(text)>>)
         \o replace(Tail(text), c, replacement)

RECURSIVE trimStart(_)
trimStart(text) ==
  IF text # <<>> /\ Head(text) = " " THEN trimStart(Tail(text)) ELSE text

RECURSIVE trimEnd(_)
trimEnd(text) ==
  IF text # <<>> /\ text[Len(text)] = " "
    THEN trimEnd(SubSeq(text, 1, Len(text) - 1))
    ELSE text

\* String.prototype.trim
trim(text) == trimEnd(trimStart(text))

\* the replacement strings of sanitizeMessage, as the source spells them
LT_REPLACEMENT == <<"<">>
GT_REPLACEMENT == <<">">>
QUOT_REPLACEMENT == <<"\"">>
APOS_REPLACEMENT == <<"&", "#", "x", "2", "7", ";">>

\* sanitizeMessage(content)
sanitizeMessage(content) ==
  trim(replace(replace(replace(replace(content,
         "<", LT_REPLACEMENT),
         ">", GT_REPLACEMENT),
         "\"", QUOT_REPLACEMENT),
         "'", APOS_REPLACEMENT))

\* the contents a caller submits to sendMessage: whitespace only, over the
\* limit, and acceptable
Blank == <<" ">>
TooLong == [k \in 1..(MAX_MESSAGE_LENGTH + 1) |-> "a"]
Contents == {Blank, TooLong, <<"a">>}

SockIds == 1..(StormSockets + 1)

VARIABLES
  url,                  \* the url of the latest render
  connectionState,      \* useState<ConnectionState>
  error,                \* useState<string | null>, "null" or a diagnostic
  wsRef,                \* the socket held by the hook, 0 for null
  reconnectAttempts,    \* the retry counter
  reconnectTimeoutRef,  \* the timer handle last stored, 0 for null
  heartbeatIntervalRef, \* TRUE while a heartbeat interval is set
  messageQueue,         \* the outbound queue
  status,               \* per socket: its phase in the WebSocket life cycle
  sockUrl,              \* per socket: the url captured by its handlers
  timers,               \* the pending reconnect timers (named by the socket
                        \* whose close handler scheduled them)
  sentLog,              \* every message handed to ws.send, in order
  nextId,               \* number of messages composed so far
  tornDown,             \* the caller has torn down and not connected since
  lastDelay,            \* the delay of the reconnect timer scheduled last
                        \* since the last open or teardown, 0 for none
  messages,             \* useState<Message[]>: the inbound store
  received,             \* the frames handled since the last clearMessages
  chatId,               \* ChatWindow: the chatId prop of the render
  chatHistory,          \* ChatWindow: the fetched history
  uniqueMessages,       \* ChatWindow: the merged feed of the render
  rendered              \* the render has computed its feed

hookVars == <<url, connectionState, error, wsRef, reconnectAttempts,
              reconnectTimeoutRef, heartbeatIntervalRef, messageQueue,
              status, sockUrl, timers, sentLog, nextId, tornDown, lastDelay,
              messages, received>>

feedVars == <<chatId, chatHistory, uniqueMessages, rendered>>

vars == <<hookVars, feedVars>>

\* WebSocket.readyState of a socket
ReadyState(st) ==
  CASE st = "CONNECTING" -> "CONNECTING"
    [] st = "OPEN"       -> "OPEN"
    [] st = "CLOSING"    -> "CLOSING"
    [] OTHER             -> "CLOSED"

\* the hook's state as one record, so that handlers compose
Cur ==
  [connectionState |-> connectionState, error |-> error, wsRef |-> wsRef,
   reconnectAttempts |-> reconnectAttempts,
   reconnectTimeoutRef |-> reconnectTimeoutRef,
   heartbeatIntervalRef |-> heartbeatIntervalRef,
   messageQueue |-> messageQueue, status |-> status, sockUrl |-> sockUrl,
   timers |-> timers, sentLog |-> sentLog, nextId |-> nextId,
   tornDown |-> tornDown, lastDelay |-> lastDelay, messages |-> messages,
   received |-> received]

Becomes(h) ==
  /\ connectionState' = h.connectionState
  /\ error' = h.error
  /\ wsRef' = h.wsRef
  /\ reconnectAttempts' = h.reconnectAttempts
  /\ reconnectTimeoutRef' = h.reconnectTimeoutRef
  /\ heartbeatIntervalRef' = h.heartbeatIntervalRef
  /\ messageQueue' = h.messageQueue
  /\ status' = h.status
  /\ sockUrl' = h.sockUrl
  /\ timers' = h.timers
  /\ sentLog' = h.sentLog
  /\ nextId' = h.nextId
  /\ tornDown' = h.tornDown
  /\ lastDelay' = h.lastDelay
  /\ messages' = h.messages
  /\ received' = h.received

\* number of sockets constructed so far
NumSockets(h) == Cardinality({s \in SockIds : h.status[s] # "NONE"})

WsOpen(h) == h.wsRef # 0 /\ ReadyState(h.status[h.wsRef]) = "OPEN"

startHeartbeat(h) == [h EXCEPT !.heartbeatIntervalRef = TRUE]

stopHeartbeat(h) == [h EXCEPT !.heartbeatIntervalRef = FALSE]

\* ws.close(): a connecting or open socket starts closing, otherwise nothing
wsClose(st) == IF st \in {"CONNECTING", "OPEN"} THEN "CLOSING" ELSE st

\* connect() of the render whose url is u
connect(h, u) ==
  IF u = "none" THEN [h EXCEPT !.connectionState = "disconnected"]
  ELSE IF WsOpen(h) THEN h
  ELSE IF u = "bad"
    THEN [h EXCEPT !.connectionState = "error",
                   !.error = "Failed to establish connection"]
    ELSE LET s == NumSockets(h) + 1 IN
         [h EXCEPT !.connectionState = "connecting",
                   !.error = "null",
                   !.status[s] = "CONNECTING",
                   !.sockUrl[s] = u,
                   !.wsRef = s]

\* variant: a teardown that finds no socket held reports it
disconnect_strict(h) ==
  LET h1 == IF h.reconnectTimeoutRef # 0
              THEN [h EXCEPT !.timers = @ \ {h.reconnectTimeoutRef},
                             !.reconnectTimeoutRef = 0]
              ELSE h
      h2 == stopHeartbeat(h1)
      h3 == IF h2.wsRef # 0
              THEN [h2 EXCEPT !.status[h2.wsRef] = wsClose(@),
                              !.wsRef = 0]
              ELSE [h2 EXCEPT !.error = "Not connected"]
  IN [h3 EXCEPT !.connectionState = "disconnected",
                !.reconnectAttempts = 0]

\* disconnect()
disconnect(h) ==
  LET h1 == IF h.reconnectTimeoutRef # 0
              THEN [h EXCEPT !.timers = @ \ {h.reconnectTimeoutRef},
                             !.reconnectTimeoutRef = 0]
              ELSE h
      h2 == stopHeartbeat(h1)
      h3 == IF h2.wsRef # 0
              THEN [h2 EXCEPT !.status[h2.wsRef] = wsClose(@),
                              !.wsRef = 0]
              ELSE h2
  IN [h3 EXCEPT !.connectionState = "disconnected",
                !.reconnectAttempts = 0]

\* variant: the flush tests the socket held by the hook (wsRef.current)
\* and not the socket that opened
FlushSendable_wsRef(h, s) == WsOpen(h)

\* the guard of the queue flush: the socket that opened is open
FlushSendable(h, s) == ReadyState(h.status[s]) = "OPEN"

\* while (messageQueue.current.length > 0) { shift; send if sendable }
RECURSIVE flushQueue(_, _)
flushQueue(h, s) ==
  IF h.messageQueue = <<>> THEN h
  ELSE LET queuedMessage == Head(h.messageQueue)
           h1 == [h EXCEPT !.messageQueue = Tail(@)]
       IN flushQueue(
            IF FlushSendable(h1, s)
              THEN [h1 EXCEPT !.sentLog =
                      Append(@, [msg |-> queuedMessage, sock |-> s,
                                 via |-> "queue"])]
              ELSE h1, s)

\* variant: the open does not reset the retry counter
onopen_keepsCounter(h, s) ==
  LET h1 == [h EXCEPT !.status[s] = "OPEN",
                      !.connectionState = "connected",
                      !.error = "null"]
  IN flushQueue(startHeartbeat(h1), s)

\* ws.onopen of socket s
onopen(h, s) ==
  LET h1 == [h EXCEPT !.status[s] = "OPEN",
                      !.connectionState = "connected",
                      !.error = "null",
                      !.reconnectAttempts = 0]
  IN flushQueue(startHeartbeat(h1), s)

IsAuthRejection(code) == code = AUTH_REJECTED

\* variant: the rate-limit rejection is not recognised
IsRateLimit_never(code) == FALSE

IsRateLimit(code) == code = RATE_LIMITED

\* variant: every reconnection waits the first interval
reconnectDelay_fixed(k) == RECONNECT_INTERVALS[1]

\* RECONNECT_INTERVALS[Math.min(k, RECONNECT_INTERVALS.length - 1)], k being
\* reconnectAttempts.current; the array is indexed from 0
reconnectDelay(k) ==
  LET last == Len(RECONNECT_INTERVALS) - 1
  IN RECONNECT_INTERVALS[(IF k < last THEN k ELSE last) + 1]

\* the condition under which onclose schedules a reconnection
ShouldReconnect(h, code) ==
  code # NORMAL_CLOSURE /\ h.reconnectAttempts < MAX_RECONNECT_ATTEMPTS

\* ws.onclose of socket s with event.code = code
onclose(h, s, code) ==
  LET h1 == stopHeartbeat([h EXCEPT !.status[s] = "CLOSED",
                                    !.connectionState = "disconnected"])
  IN IF IsAuthRejection(code)
       THEN [h1 EXCEPT !.error = "Authentication failed"]
     ELSE IF IsRateLimit(code)
       THEN [h1 EXCEPT !.error = "Rate limit exceeded"]
     ELSE IF ShouldReconnect(h1, code)
       THEN [h1 EXCEPT !.connectionState = "reconnecting",
                       !.reconnectTimeoutRef = s,
                       !.timers = @ \cup {s},
                       !.lastDelay = reconnectDelay(h1.reconnectAttempts)]
     ELSE IF h1.reconnectAttempts >= MAX_RECONNECT_ATTEMPTS
       THEN [h1 EXCEPT !.error = "Connection failed after multiple attempts"]
     ELSE h1

\* ws.onerror of socket s
onerror(h, s) ==
  [h EXCEPT !.status[s] = "FAILED",
            !.connectionState = "error",
            !.error = "Connection error occurred"]

\* the callback of the reconnect timer scheduled by the close of socket s
reconnectTimer(h, s) ==
  connect([h EXCEPT !.timers = @ \ {s},
                    !.reconnectAttempts = @ + 1], h.sockUrl[s])

\* variant: unshift in place of push
enqueue_unshift(q, messageStr) == <<messageStr>> \o q

\* messageQueue.current.push(messageStr)
enqueue(q, messageStr) == Append(q, messageStr)

\* variant: only the empty string is refused
IsBlank_empty(content) == content = <<>>

\* !content.trim()
IsBlank(content) == trim(content) = <<>>

\* sendMessage(chatId, content)
sendMessage(h, chat, content) ==
  IF IsBlank(content) THEN h
  ELSE IF Len(content) > MAX_MESSAGE_LENGTH
    THEN [h EXCEPT !.error = "Message too long"]
  ELSE LET sanitizedContent == sanitizeMessage(content)
           message == [id |-> h.nextId + 1, chatId |-> chat,
                       content |-> sanitizedContent, sender |-> "You"]
           h1 == [h EXCEPT !.nextId = @ + 1]
       IN IF WsOpen(h1)
            THEN [h1 EXCEPT !.sentLog =
                    Append(@, [msg |-> message, sock |-> h1.wsRef,
                               via |-> "direct"])]
            ELSE [h1 EXCEPT !.messageQueue = enqueue(@, message)]

\* what sendMessage(chatId, content) returns to its caller
sendMessageReturns(h, content) ==
  IF IsBlank(content) THEN FALSE
  ELSE IF Len(content) > MAX_MESSAGE_LENGTH THEN FALSE
  ELSE WsOpen(h)

(***************************************************************************)
(* The reconciliation of ChatWindow.  A record of the fetched history      *)
(* carries its timestamp as a string (created_at || timestamp); a message  *)
(* of the store carries a Date object.  A timestamp is an instant in       *)
(* milliseconds, or NaN when it is missing or cannot be parsed.            *)
(***************************************************************************)
\* the value of getTime() for an invalid date
NaN == -1

\* milliseconds per second, in the scale of the model
MsPerSecond == 2

\* the message ids of the reconciliation inputs
Ids == {1, 2}

\* the timestamps of the reconciliation inputs: two instants of one second,
\* an instant of the next second, and a missing or unparseable timestamp
Timestamps == {0, 1, MsPerSecond, NaN}

HistoryRecords(cid) ==
  [id : Ids, chatId : {cid}, timestamp : Timestamps, src : {"history"}]

\* the sender of an inbound message
Senders == {"bot"}

StoreMessages ==
  [id : Ids, chatId : Chats, timestamp : Timestamps, src : {"live"},
   content : {<<"a">>}, sender : Senders]

\* String(x) of a timestamp: a string is itself, a Date is printed by
\* Date.prototype.toString, which has no milliseconds
StringOfTime(m) ==
  IF m.timestamp = NaN THEN NaN
  ELSE IF m.src = "live"
    THEN (m.timestamp \div MsPerSecond) * MsPerSecond
    ELSE m.timestamp

\* new Date(String(aTime)).getTime()
getTime(m) == StringOfTime(m)

\* the comparator of the sort; a NaN difference counts as +0
compare(a, b) ==
  IF getTime(a) = NaN \/ getTime(b) = NaN THEN 0
  ELSE getTime(a) - getTime(b)

\* whether compare is a consistent comparator for the elements of all
\* (ECMAScript, Array.prototype.sort)
ConsistentComparator(all) ==
  \A i, j, k \in 1..Len(all) :
    /\ (compare(all[i], all[j]) = 0 /\ compare(all[j], all[k]) = 0)
         => compare(all[i], all[k]) = 0
    /\ (compare(all[i], all[j]) < 0 /\ compare(all[j], all[k]) < 0)
         => compare(all[i], all[k]) < 0
    /\ (compare(all[i], all[j]) = 0 /\ compare(all[j], all[k]) < 0)
         => compare(all[i], all[k]) < 0
    /\ (compare(all[i], all[j]) < 0 /\ compare(all[j], all[k]) = 0)
         => compare(all[i], all[k]) < 0

\* x inserted behind the last element of the sorted sequence that does not
\* compare greater than x
InsertSorted(sorted, x) ==
  LET before == {k \in 1..Len(sorted) : compare(sorted[k], x) <= 0}
      n == IF before = {} THEN 0
           ELSE CHOOSE k \in before : \A l \in before : l <= k
  IN SubSeq(sorted, 1, n) \o <<x>> \o SubSeq(sorted, n + 1, Len(sorted))

RECURSIVE StableSort(_)
\* the stable sort of all by compare
StableSort(all) ==
  IF all = <<>> THEN <<>>
  ELSE InsertSorted(StableSort(SubSeq(all, 1, Len(all) - 1)), all[Len(all)])

Reorderings(all) ==
  {[k \in 1..Len(all) |-> all[p[k]]] :
     p \in {q \in [1..Len(all) -> 1..Len(all)] :
              \A a, b \in 1..Len(all) : a # b => q[a] # q[b]}}

\* the results Array.prototype.sort can return: the stable sort when the
\* comparator is consistent, an implementation-defined order otherwise
SortOutcomes(all) ==
  IF ConsistentComparator(all) THEN {StableSort(all)} ELSE Reorderings(all)

\* messages.filter(msg => msg.chatId === chatId)
ofChat(msgs, cid) == SelectSeq(msgs, LAMBDA m : m.chatId = cid)

\* [...chatHistory, ...messages.filter(...)]
concatenated(history, msgs, cid) == history \o ofChat(msgs, cid)

\* a.findIndex(t => String(t.id) === String(v.id)); ids are strings
findIndex(a, v) == CHOOSE k \in 1..Len(a) :
                     /\ a[k].id = v.id
                     /\ \A l \in 1..(k - 1) : a[l].id # v.id

\* variant: only a duplicate next to its first copy is dropped
dedupe_adjacent(a) ==
  LET keep == {k \in 1..Len(a) : k = 1 \/ a[k - 1].id # a[k].id}
      F[k \in 0..Len(a)] ==
        IF k = 0 THEN <<>>
        ELSE IF k \in keep THEN Append(F[k - 1], a[k]) ELSE F[k - 1]
  IN F[Len(a)]

\* allMessages.filter((v, i, a) => a.findIndex(...) === i)
dedupe(a) ==
  LET keep == {k \in 1..Len(a) : findIndex(a, a[k]) = k}
      F[k \in 0..Len(a)] ==
        IF k = 0 THEN <<>>
        ELSE IF k \in keep THEN Append(F[k - 1], a[k]) ELSE F[k - 1]
  IN F[Len(a)]

(***************************************************************************)
(* Inbound frames.  event.data is text; JSON.parse throws on it or yields  *)
(* null, a scalar or an object.  A property of the object is undefined, a  *)
(* number (standing for every value that is not a string) or a string.     *)
(***************************************************************************)
\* the values of a property whose strings are drawn from S; absent is the
\* value carried when the property is not a string
Property(S, absent) ==
  [typeof : {"string"}, value : S]
    \cup [typeof : {"undefined", "number"}, value : {absent}]

\* data.timestamp is absent
NoTimestamp == -2

\* Date.now() when a frame is handled
DateNow == MsPerSecond

\* the frames whose payload is an object
ObjectFrames(ids, contents, chats, times) ==
  [json : {"object"}, type : {"undefined", "pong"},
   id : Property(ids, 0), content : Property(contents, <<>>),
   sender : Property(Senders, ""), chatId : Property(chats, ""),
   timestamp : times]

\* the frame whose payload is not an object: text JSON.parse throws on,
\* null, or a scalar; it has no properties
OtherFrame(json) ==
  [json |-> json, type |-> "undefined",
   id |-> [typeof |-> "undefined", value |-> 0],
   content |-> [typeof |-> "undefined", value |-> <<>>],
   sender |-> [typeof |-> "undefined", value |-> ""],
   chatId |-> [typeof |-> "undefined", value |-> ""],
   timestamp |-> NoTimestamp]

OtherFrames == {OtherFrame(json) : json \in {"unparseable", "null", "scalar"}}

\* variant: the sender is not tested
validateMessage_noSender(message) ==
  /\ message.json = "object"
  /\ message.id.typeof = "string"
  /\ message.content.typeof = "string"
  /\ message.chatId.typeof = "string"
  /\ Len(message.content.value) <= MAX_MESSAGE_LENGTH

\* validateMessage(message)
validateMessage(message) ==
  /\ message.json = "object"
  /\ message.id.typeof = "string"
  /\ message.content.typeof = "string"
  /\ message.sender.typeof = "string"
  /\ message.chatId.typeof = "string"
  /\ Len(message.content.value) <= MAX_MESSAGE_LENGTH

\* variant: slice(0, n), which keeps the oldest entries
slice_head(newMessages, n) ==
  IF Len(newMessages) <= n THEN newMessages ELSE SubSeq(newMessages, 1, n)

\* newMessages.slice(-n), n > 0
slice(newMessages, n) ==
  IF Len(newMessages) <= n THEN newMessages
  ELSE SubSeq(newMessages, Len(newMessages) - n + 1, Len(newMessages))

\* { ...data, content: sanitizeMessage(data.content),
\*   timestamp: new Date(data.timestamp || Date.now()) }
sanitizedMessage(data) ==
  [id |-> data.id.value, chatId |-> data.chatId.value,
   sender |-> data.sender.value,
   content |-> sanitizeMessage(data.content.value),
   timestamp |-> IF data.timestamp = NoTimestamp THEN DateNow
                 ELSE data.timestamp,
   src |-> "live"]

\* variant: a frame that cannot be handled is treated as a transport error
caught_asTransportError(h) ==
  [h EXCEPT !.connectionState = "error",
            !.error = "Connection error occurred"]

\* catch (error) { console.error(...) }
caught(h) == h

\* ws.onmessage of socket s with the frame event; JSON.parse throws on text
\* that is not JSON, and data.type throws when the payload is null
onmessage(h, s, event) ==
  IF event.json = "unparseable" THEN caught(h)
  ELSE IF event.json = "null" THEN caught(h)
  ELSE IF event.type = "pong" THEN h
  ELSE IF ~validateMessage(event) THEN h
  ELSE [h EXCEPT !.messages =
          slice(Append(@, sanitizedMessage(event)), MAX_MESSAGES_BUFFER)]

\* clearMessages()
clearMessages(h) == [h EXCEPT !.messages = <<>>]

(***************************************************************************)
(* The state after construction: useState and useRef initial values, no    *)
(* socket constructed, no effect run yet.                                  *)
(***************************************************************************)
\* the state and the refs of the hook, its store apart
RefsInit ==
  /\ url = "none"
  /\ connectionState = "disconnected"
  /\ error = "null"
  /\ wsRef = 0
  /\ reconnectAttempts = 0
  /\ reconnectTimeoutRef = 0
  /\ heartbeatIntervalRef = FALSE
  /\ messageQueue = <<>>
  /\ status = [s \in SockIds |-> "NONE"]
  /\ sockUrl = [s \in SockIds |-> "none"]
  /\ timers = {}
  /\ sentLog = <<>>
  /\ nextId = 0
  /\ tornDown = FALSE
  /\ lastDelay = 0
  /\ received = <<>>

HookInit == RefsInit /\ messages = <<>>

\* no render of ChatWindow has reconciled anything yet
FeedInit ==
  /\ chatId = "A"
  /\ chatHistory = <<>>
  /\ uniqueMessages = <<>>
  /\ rendered = FALSE

Init == HookInit /\ FeedInit

(***************************************************************************)
(* Actions: one per operation, handler or timer callback.  maxS bounds the *)
(* number of sockets constructed.                                          *)
(***************************************************************************)
\* the socket bound leaves room for one more socket
Room(h, maxS) == NumSockets(h) < maxS

\* the effect on [url, connect, disconnect]: the cleanup of the previous
\* render runs disconnect(), then the effect of the render with url u runs
UrlEffect(u, maxS) ==
  /\ u # url
  /\ Room(Cur, maxS)
  /\ url' = u
  /\ LET h1 == disconnect(Cur)
         h2 == IF u # "none" THEN connect(h1, u) ELSE disconnect(h1)
     IN Becomes([h2 EXCEPT !.tornDown = IF u = "none" THEN @ ELSE FALSE,
                           !.lastDelay = 0])
  /\ UNCHANGED feedVars

\* the caller invokes connect()
Connect(maxS) ==
  /\ Room(Cur, maxS)
  /\ Becomes([connect(Cur, url) EXCEPT !.tornDown = FALSE])
  /\ UNCHANGED <<url, feedVars>>

\* the caller invokes disconnect() (also the cleanup on unmount)
Disconnect ==
  /\ Becomes([disconnect(Cur) EXCEPT !.tornDown = TRUE, !.lastDelay = 0])
  /\ UNCHANGED <<url, feedVars>>

\* the open event of socket s
OnOpen(s) ==
  /\ status[s] = "CONNECTING"
  /\ Becomes([onopen(Cur, s) EXCEPT !.lastDelay = 0])
  /\ UNCHANGED <<url, feedVars>>

\* the error event of socket s: the connection failed, the close event follows
OnError(s) ==
  /\ status[s] \in {"CONNECTING", "OPEN", "CLOSING"}
  /\ Becomes(onerror(Cur, s))
  /\ UNCHANGED <<url, feedVars>>

\* the close event of socket s
OnClose(s, code) ==
  /\ status[s] \in {"CONNECTING", "OPEN", "CLOSING", "FAILED"}
  /\ Becomes(onclose(Cur, s, code))
  /\ UNCHANGED <<url, feedVars>>

\* a pending reconnect timer fires
ReconnectTimerFires(s, maxS) ==
  /\ s \in timers
  /\ Room(Cur, maxS)
  /\ Becomes(reconnectTimer(Cur, s))
  /\ UNCHANGED <<url, feedVars>>

\* the chat identifiers a caller can pass to sendMessage: its chatId prop,
\* which is also the chat of the url when the url is well formed
CallerChats == IF url \in Chats THEN {url} ELSE Chats

\* the caller submits a message
SendMessage(chat, content) ==
  /\ nextId < MaxMsgs
  /\ Becomes(sendMessage(Cur, chat, content))
  /\ UNCHANGED <<url, feedVars>>

\* socket s delivers a frame, one of frames; maxF bounds the frames handled
\* between two clearMessages
OnMessage(s, frames, maxF) ==
  /\ status[s] = "OPEN"
  /\ Len(received) < maxF
  /\ \E event \in frames :
       Becomes([onmessage(Cur, s, event) EXCEPT
                  !.received = Append(@, event)])
  /\ UNCHANGED <<url, feedVars>>

\* the caller invokes clearMessages()
ClearMessages ==
  /\ Becomes([clearMessages(Cur) EXCEPT !.received = <<>>])
  /\ UNCHANGED <<url, feedVars>>

\* the connection life cycle: the effect, the caller's connect and disconnect,
\* the socket events and the reconnect timers, with at most maxS sockets
Lifecycle(maxS) ==
  \/ \E u \in Urls : UrlEffect(u, maxS)
  \/ Connect(maxS)
  \/ Disconnect
  \/ \E s \in SockIds : OnOpen(s)
  \/ \E s \in SockIds : OnError(s)
  \/ \E s \in SockIds, code \in CloseCodes : OnClose(s, code)
  \/ \E s \in SockIds : ReconnectTimerFires(s, maxS)

Next == Lifecycle(MaxSockets)

Spec == Init /\ [][Next]_vars

\* the outbound queue: the hook is mounted on chat A; the caller connects,
\* tears down and submits messages, sockets open, fail and close, timers fire
NextQueue ==
  \/ UrlEffect("A", QueueSockets)
  \/ Connect(QueueSockets)
  \/ Disconnect
  \/ \E s \in SockIds : OnOpen(s)
  \/ \E s \in SockIds : OnError(s)
  \/ \E s \in SockIds, code \in CloseCodes : OnClose(s, code)
  \/ \E s \in SockIds : ReconnectTimerFires(s, QueueSockets)
  \/ \E chat \in CallerChats, content \in Contents :
       SendMessage(chat, content)

SpecQueue == Init /\ [][NextQueue]_vars

\* automatic reconnection only: the hook is mounted on chat A, the caller
\* never invokes connect() and may tear down
NextRetry ==
  \/ UrlEffect("A", RetrySockets)
  \/ Disconnect
  \/ \E s \in SockIds : OnOpen(s)
  \/ \E s \in SockIds : OnError(s)
  \/ \E s \in SockIds, code \in CloseCodes : OnClose(s, code)
  \/ \E s \in SockIds : ReconnectTimerFires(s, RetrySockets)

SpecRetry == Init /\ [][NextRetry]_vars

\* the server is unreachable: the hook is mounted on chat A, every socket
\* closes abnormally without opening, the caller invokes connect() and the
\* reconnect timers fire
NextStorm ==
  \/ UrlEffect("A", StormSockets)
  \/ Connect(StormSockets)
  \/ \E s \in SockIds : OnClose(s, ABNORMAL_CLOSURE)
  \/ \E s \in SockIds : ReconnectTimerFires(s, StormSockets)

SpecStorm == Init /\ [][NextStorm]_vars

\* switching chats: the chat identifier of the render changes between the
\* two chats, sockets open and close, and the caller submits messages for
\* the chat of the render
NextSwitch ==
  \/ \E u \in Chats : UrlEffect(u, QueueSockets)
  \/ \E s \in SockIds : OnOpen(s)
  \/ \E s \in SockIds, code \in CloseCodes : OnClose(s, code)
  \/ \E chat \in CallerChats, content \in Contents :
       SendMessage(chat, content)

SpecSwitch == Init /\ [][NextSwitch]_vars

\* the frame of a message with every property a string
MessageFrame(id, content, chat) ==
  [json |-> "object", type |-> "undefined",
   id |-> [typeof |-> "string", value |-> id],
   content |-> [typeof |-> "string", value |-> content],
   sender |-> [typeof |-> "string", value |-> "bot"],
   chatId |-> [typeof |-> "string", value |-> chat],
   timestamp |-> NoTimestamp]

\* the frames of the inbound-store specification: a message per id, a
\* message over the length limit, a message without sender, a pong and text
\* that is not JSON
StoreFrames ==
  {MessageFrame(i, <<"a">>, "A") : i \in Ids}
    \cup {MessageFrame(1, TooLong, "A"),
          [MessageFrame(1, <<"a">>, "A") EXCEPT
             !.sender = [typeof |-> "undefined", value |-> ""]],
          [OtherFrame("scalar") EXCEPT !.json = "object", !.type = "pong"],
          OtherFrame("unparseable")}

\* the inbound store: the hook is mounted on chat A, its sockets open, deliver
\* frames, fail and close, timers fire, the caller clears the store and
\* tears down
NextStore ==
  \/ UrlEffect("A", StoreSockets)
  \/ Disconnect
  \/ \E s \in SockIds : OnOpen(s)
  \/ \E s \in SockIds : OnError(s)
  \/ \E s \in SockIds, code \in CloseCodes : OnClose(s, code)
  \/ \E s \in SockIds : ReconnectTimerFires(s, StoreSockets)
  \/ \E s \in SockIds : OnMessage(s, StoreFrames, MaxFrames)
  \/ ClearMessages

SpecStore == Init /\ [][NextStore]_vars

\* every frame a peer can deliver: payloads that are not objects, and objects
\* with each property absent, not a string, or a string; the content is any
\* string up to one character over the limit
AllFrames ==
  ObjectFrames({1}, Strings, {"A"}, {NoTimestamp}) \cup OtherFrames

\* the handling of one frame: the hook is mounted on chat A, its socket opens
\* and delivers any one frame
NextFrame ==
  \/ UrlEffect("A", StoreSockets)
  \/ \E s \in SockIds : OnOpen(s)
  \/ \E s \in SockIds : OnMessage(s, AllFrames, 1)

SpecFrame == Init /\ [][NextFrame]_vars

\* a render of ChatWindow: any fetched history and any store contents
MergeInit ==
  /\ RefsInit
  /\ chatId \in Chats
  /\ chatHistory \in SeqsUpTo(HistoryRecords(chatId), MaxMerged)
  /\ messages \in SeqsUpTo(StoreMessages, MaxMerged - Len(chatHistory))
  /\ uniqueMessages = <<>>
  /\ rendered = FALSE

\* the render computes allMessages and uniqueMessages
Render ==
  /\ ~rendered
  /\ \E allMessages \in SortOutcomes(concatenated(chatHistory, messages, chatId)) :
       uniqueMessages' = dedupe(allMessages)
  /\ rendered' = TRUE
  /\ UNCHANGED <<hookVars, chatId, chatHistory>>

NextMerge == Render

SpecMerge == MergeInit /\ [][NextMerge]_vars

TypeOK ==
  /\ connectionState \in
       {"disconnected", "connecting", "connected", "error", "reconnecting"}
  /\ wsRef \in SockIds \cup {0}
  /\ timers \subseteq SockIds

(***************************************************************************)
(* Claims about the connection life cycle.                                 *)
(***************************************************************************)
\* the sockets whose close event has not been delivered yet
Closable == {s \in SockIds :
               status[s] \in {"CONNECTING", "OPEN", "CLOSING", "FAILED"}}

\* the channels: sockets that are connecting or open; their handlers are
\* never detached, so every one of them can act on the hook's state
Channels == {s \in SockIds : status[s] \in {"CONNECTING", "OPEN"}}

\* a step in which the close event of some socket is handled
CloseStep == \E s \in SockIds : status[s] # "CLOSED" /\ status'[s] = "CLOSED"

\* a step in which socket s opens
OpenStep(s) == status[s] = "CONNECTING" /\ status'[s] = "OPEN"

\* C1: after a caller-invoked disconnect(), and until the caller invokes
\* connect again, no reconnect timer is pending, so that no automatic
\* connection attempt can be made, whatever events of the torn-down socket
\* arrive.
C1_NoReconnectAfterTeardown == tornDown => timers = {}

\* C2: in every reachable state at most one channel (a socket that is
\* connecting or open) exists.
C2_AtMostOneChannel == Cardinality(Channels) <= 1

\* C3: when a channel closes while the retry counter is at the ceiling
\* MAX_RECONNECT_ATTEMPTS, no reconnect timer is scheduled, the give-up
\* diagnostic is recorded and connectionState is error.
C3_GiveUpAtCeiling ==
  [][(CloseStep /\ reconnectAttempts >= MAX_RECONNECT_ATTEMPTS) =>
       /\ timers' = timers
       /\ error' = "Connection failed after multiple attempts"
       /\ connectionState' = "error"]_vars

\* C4: in every reachable state, the close event of any socket with a
\* non-retryable code (4001, 4003) schedules no reconnect timer, leaves the
\* retry counter at its pre-close value and sets connectionState to
\* disconnected or error, never reconnecting.
C4_NonRetryableNeverReconnects ==
  \A s \in Closable, code \in {AUTH_REJECTED, RATE_LIMITED} :
    LET h == onclose(Cur, s, code) IN
      /\ h.timers = timers
      /\ h.reconnectTimeoutRef = reconnectTimeoutRef
      /\ h.reconnectAttempts = reconnectAttempts
      /\ h.connectionState \in {"disconnected", "error"}

\* C4 witness: a rate-limit rejection closed a socket while the retry counter
\* was positive; the counter kept its value and nothing is scheduled
C4_Witness ==
  /\ error = "Rate limit exceeded"
  /\ connectionState = "disconnected"
  /\ reconnectAttempts > 0
  /\ timers = {}
  /\ \E s \in SockIds : status[s] = "CLOSED"

(***************************************************************************)
(* Claims about the outbound queue.                                        *)
(***************************************************************************)
RECURSIVE SeqCount(_, _)
\* how many entries of the sequence of messages q carry the id i
SeqCount(q, i) ==
  IF q = <<>> THEN 0
  ELSE (IF Head(q).id = i THEN 1 ELSE 0) + SeqCount(Tail(q), i)

\* the messages handed to ws.send, in order
SentMsgs == [k \in 1..Len(sentLog) |-> sentLog[k].msg]

Increasing(q) == \A j, k \in 1..Len(q) : j < k => q[j].id < q[k].id

\* C5: the messages queued while the channel is not open are all transmitted
\* on the open of a channel, in their enqueue order, and a message submitted
\* later is transmitted after them: every open hands the whole queue, in
\* order, to the socket that opened, and the transmissions follow the order
\* of submission, with nothing queued older than something transmitted.
C5_QueueFlushedInOrder ==
  /\ []Increasing(SentMsgs \o messageQueue)
  /\ [][\A s \in SockIds : OpenStep(s) =>
          /\ messageQueue' = <<>>
          /\ sentLog' = sentLog \o
               [k \in 1..Len(messageQueue) |->
                  [msg |-> messageQueue[k], sock |-> s, via |-> "queue"]]]_vars

\* C5 witness: two messages were queued, a channel opened and transmitted
\* both from the queue, in order
C5_Witness ==
  /\ Len(sentLog) = 2
  /\ sentLog[1].via = "queue" /\ sentLog[2].via = "queue"
  /\ sentLog[1].sock = sentLog[2].sock
  /\ sentLog[1].msg.id = 1 /\ sentLog[2].msg.id = 2
  /\ messageQueue = <<>>

\* C6: every message composed is, at any time, either in the outbound queue
\* or transmitted, and exactly once in all: no queued entry leaves the
\* queue without being sent and none is sent twice.
C6_QueuedSentExactlyOnce ==
  \A i \in 1..nextId :
    SeqCount(messageQueue, i) + SeqCount(SentMsgs, i) = 1

\* C6 witness: an entry was queued and later transmitted by the flush of the
\* second socket, after a reconnection
C6_Witness ==
  \E k \in 1..Len(sentLog) :
    /\ sentLog[k].via = "queue"
    /\ sentLog[k].sock = 2
    /\ status[1] = "CLOSED"
    /\ SeqCount(messageQueue, sentLog[k].msg.id) = 0

(***************************************************************************)
(* Claims about the merged feed.                                           *)
(***************************************************************************)
IdsOf(q) == {q[k].id : k \in 1..Len(q)}

\* the ids of the two inputs of the merge: the history and the store entries
\* of the active chat
InputIds == IdsOf(chatHistory) \cup IdsOf(ofChat(messages, chatId))

\* C7: the merged feed contains every id that occurs in the history or in the
\* store entries of the active chat, exactly once, and no other id.
C7_EachIdExactlyOnce ==
  rendered =>
    /\ IdsOf(uniqueMessages) = InputIds
    /\ \A i \in InputIds : SeqCount(uniqueMessages, i) = 1

\* C7 witness: an id occurred in the history and in the store, another
\* store message belonged to the other chat, and the feed was computed
C7_Witness ==
  /\ rendered
  /\ IdsOf(chatHistory) \cap IdsOf(ofChat(messages, chatId)) # {}
  /\ Len(ofChat(messages, chatId)) < Len(messages)
  /\ Len(uniqueMessages) < Len(chatHistory) + Len(messages)
  /\ uniqueMessages # <<>>

\* C8: the merged feed is sorted non-decreasing by timestamp (stated for the
\* messages whose timestamp can be parsed).
C8_FeedSortedByTimestamp ==
  rendered =>
    \A j, k \in 1..Len(uniqueMessages) :
      (/\ j < k
       /\ uniqueMessages[j].timestamp # NaN
       /\ uniqueMessages[k].timestamp # NaN)
      => uniqueMessages[j].timestamp <= uniqueMessages[k].timestamp

\* C9: messages of the feed with equal timestamps and different ids appear
\* in id order.
C9_TiesInIdOrder ==
  rendered =>
    \A j, k \in 1..Len(uniqueMessages) :
      (/\ j < k
       /\ uniqueMessages[j].timestamp # NaN
       /\ uniqueMessages[j].timestamp = uniqueMessages[k].timestamp)
      => uniqueMessages[j].id < uniqueMessages[k].id

\* C10: when an id occurs both in the history and in the store of the active
\* chat, the copy kept in the feed is the copy of the store.
C10_LiveCopyKept ==
  rendered =>
    \A k \in 1..Len(uniqueMessages) :
      uniqueMessages[k].id \in
          IdsOf(chatHistory) \cap IdsOf(ofChat(messages, chatId))
      => uniqueMessages[k].src = "live"

(***************************************************************************)
(* Claims about the inbound store.                                         *)
(***************************************************************************)
\* the frame passes every test of ws.onmessage
Accepts(event) ==
  /\ event.json \notin {"unparseable", "null"}
  /\ event.type # "pong"
  /\ validateMessage(event)

\* the messages accepted since the last clearMessages, in arrival order
Accepted ==
  LET frames == SelectSeq(received, Accepts)
  IN [k \in 1..Len(frames) |-> sanitizedMessage(frames[k])]

\* C11: the store holds exactly the most recent min(n, C) of the n messages
\* accepted since the last clearMessages, in arrival order, where C is
\* MAX_MESSAGES_BUFFER; so its length never exceeds C and the oldest entry
\* is evicted first.
C11_StoreHoldsMostRecent ==
  LET n == Len(Accepted)
      kept == IF n <= MAX_MESSAGES_BUFFER THEN n ELSE MAX_MESSAGES_BUFFER
  IN /\ Len(messages) = kept
     /\ Len(messages) <= MAX_MESSAGES_BUFFER
     /\ \A k \in 1..kept : messages[k] = Accepted[n - kept + k]

\* C11 witness: one message more than the capacity was accepted; the oldest
\* was evicted and the store begins with a message of another id
C11_Witness ==
  /\ Len(Accepted) = MAX_MESSAGES_BUFFER + 1
  /\ Len(messages) = MAX_MESSAGES_BUFFER
  /\ messages[1].id # Accepted[1].id

\* the frame is a record whose id, content, sender and chatId are strings,
\* whose content is within the length limit, and it is not a pong
WellFormed(event) ==
  /\ event.json = "object"
  /\ \A p \in {"id", "content", "sender", "chatId"} :
       event[p].typeof = "string"
  /\ Len(event.content.value) <= MAX_MESSAGE_LENGTH
  /\ event.type # "pong"

\* C12: a frame is appended to the store if and only if it is a record whose
\* id, content, sender and chatId are strings and whose content has at most
\* MAX_MESSAGE_LENGTH characters, and it is not a pong; every other frame
\* leaves nothing in the store, and the content of a stored message is the
\* sanitized form of the whole content, not a truncation.
C12_StoredIffWellFormed ==
  LET wf == SelectSeq(received, WellFormed)
  IN /\ Len(messages) = Len(wf)
     /\ \A k \in 1..Len(wf) :
          /\ messages[k].id = wf[k].id.value
          /\ messages[k].sender = wf[k].sender.value
          /\ messages[k].chatId = wf[k].chatId.value
          /\ messages[k].content = sanitizeMessage(wf[k].content.value)

\* C12 witness: a frame whose content is exactly at the limit was stored
C12_Witness ==
  /\ Len(received) = 1
  /\ WellFormed(received[1])
  /\ Len(received[1].content.value) = MAX_MESSAGE_LENGTH
  /\ Len(messages) = 1

\* the character at position i of text is neutralized: it is none of
\* < > " ' and, when it is &, it begins a character reference
Neutralized(text, i) ==
  /\ text[i] \notin {"<", ">", "\"", "'"}
  /\ text[i] = "&" => (i < Len(text) /\ text[i + 1] = "#")

\* C13: in the content of every stored message each of the five
\* HTML-significant characters < > " ' & of the received content has been
\* replaced by an escaped form: no literal < > " ' is stored, and a stored &
\* only begins an escape.
C13_HtmlSignificantEscaped ==
  \A k \in 1..Len(messages) :
    \A i \in 1..Len(messages[k].content) :
      Neutralized(messages[k].content, i)

(***************************************************************************)
(* Claims about teardown and the heartbeat.                                *)
(***************************************************************************)
\* C14: from any state, immediately after disconnect() returns,
\* connectionState is disconnected, no reconnect timer is pending, the
\* heartbeat timer is stopped, the socket the hook held is closing or closed
\* and the handle is cleared, and the retry counter is zero.
C14_TeardownPostcondition ==
  LET h == disconnect(Cur) IN
    /\ h.connectionState = "disconnected"
    /\ h.timers = {}
    /\ h.reconnectTimeoutRef = 0
    /\ ~h.heartbeatIntervalRef
    /\ h.wsRef = 0
    /\ wsRef # 0 => h.status[wsRef] \notin {"CONNECTING", "OPEN"}
    /\ h.reconnectAttempts = 0

\* C15: disconnect() is idempotent: in every reachable state a second call
\* right after a first leaves exactly the state the first call left.
C15_DisconnectIdempotent ==
  disconnect(disconnect(Cur)) = disconnect(Cur)

\* C15 witness: the caller tore down a live channel, whose socket is still
\* closing, and a further disconnect() changes nothing
C15_Witness ==
  /\ tornDown
  /\ wsRef = 0
  /\ \E s \in SockIds : status[s] = "CLOSING"
  /\ disconnect(Cur) = Cur

\* C16: the heartbeat timer runs only while connectionState is connected.
C16_HeartbeatOnlyWhileConnected ==
  heartbeatIntervalRef => connectionState = "connected"

\* the sockets constructed for a previous target whose close event has not
\* been delivered yet
PreviousChannels == {s \in Closable : sockUrl[s] # url}

\* C17: once the target has changed and the next channel has been
\* constructed, no event of a channel of the previous target changes the
\* connection state, the timers, the retry counter or the store: stated for
\* the close event, which every such channel still has to deliver.
C17_NoCrossTalk ==
  url \in Chats =>
    \A s \in PreviousChannels, code \in CloseCodes :
      LET h == onclose(Cur, s, code) IN
        /\ h.connectionState = connectionState
        /\ h.timers = timers
        /\ h.reconnectTimeoutRef = reconnectTimeoutRef
        /\ h.heartbeatIntervalRef = heartbeatIntervalRef
        /\ h.reconnectAttempts = reconnectAttempts
        /\ h.messages = messages

(***************************************************************************)
(* Claims about sendMessage.                                               *)
(***************************************************************************)
\* content that sendMessage does not reject
ValidContent(content) ==
  trim(content) # <<>> /\ Len(content) <= MAX_MESSAGE_LENGTH

\* C18: a valid message submitted through sendMessage is handed to the
\* socket at once, and the caller told so, exactly when connectionState is
\* connected; in every other state it is appended to the tail of the
\* outbound queue, nothing is transmitted and the caller is told it was
\* queued.
C18_SendIffConnected ==
  \A chat \in CallerChats, content \in Contents :
    ValidContent(content) =>
      LET h == sendMessage(Cur, chat, content) IN
        IF connectionState = "connected"
          THEN /\ Len(h.sentLog) = Len(sentLog) + 1
               /\ h.sentLog[Len(h.sentLog)].via = "direct"
               /\ h.messageQueue = messageQueue
               /\ sendMessageReturns(Cur, content)
          ELSE /\ h.sentLog = sentLog
               /\ Len(h.messageQueue) = Len(messageQueue) + 1
               /\ SubSeq(h.messageQueue, 1, Len(messageQueue)) = messageQueue
               /\ ~sendMessageReturns(Cur, content)

\* contents a caller can submit that are empty, whitespace only or over the
\* length limit: the empty string, one blank, blanks only, and over-length
\* strings without and with a leading blank
RejectedContents ==
  {<<>>, Blank, <<" ", " ">>, TooLong, <<" ">> \o Tail(TooLong)}

\* C19: in every connection state, sendMessage with empty or whitespace-only
\* content, or with content longer than MAX_MESSAGE_LENGTH, returns false
\* at once and leaves the outbound queue and every socket untouched: nothing
\* is enqueued, nothing is transmitted and no message is composed.
C19_RejectedLeavesNoTrace ==
  \A chat \in CallerChats, content \in RejectedContents :
    LET h == sendMessage(Cur, chat, content) IN
      /\ ~ValidContent(content)
      /\ ~sendMessageReturns(Cur, content)
      /\ h.messageQueue = messageQueue
      /\ h.sentLog = sentLog
      /\ h.nextId = nextId
      /\ h.status = status
      /\ h.wsRef = wsRef
      /\ h.connectionState = connectionState

\* C19 witness: over-length content was submitted while connected; the
\* diagnostic is recorded, nothing was composed, queued or transmitted
C19_Witness ==
  /\ error = "Message too long"
  /\ connectionState = "connected"
  /\ nextId = 0
  /\ messageQueue = <<>>
  /\ sentLog = <<>>

\* the part of the hook's state a dropped frame must leave alone
Untouched ==
  UNCHANGED <<connectionState, error, wsRef, status, heartbeatIntervalRef,
              reconnectTimeoutRef, timers, reconnectAttempts, messageQueue,
              sentLog, messages>>

\* C20: the handling of a frame that fails JSON parsing or validation leaves
\* connectionState, the sockets, the heartbeat and reconnect timers, the
\* retry counter, the outbound queue and the store unchanged; and a
\* well-formed frame is appended to the store, whatever frames were dropped
\* before it, so that frames keep being processed in arrival order.
C20_BadFrameDroppedAlone ==
  [][\A event \in StoreFrames :
       received' = Append(received, event) =>
         IF WellFormed(event)
           THEN messages' = slice(Append(messages, sanitizedMessage(event)),
                                  MAX_MESSAGES_BUFFER)
           ELSE Untouched]_vars

\* C20 witness: text that is not JSON was dropped, the next frame of the same
\* channel was stored, and the channel is still connected
C20_Witness ==
  /\ Len(received) = 2
  /\ received[1].json = "unparseable"
  /\ WellFormed(received[2])
  /\ Len(messages) = 1
  /\ connectionState = "connected"
  /\ heartbeatIntervalRef

(***************************************************************************)
(* Claims about connection attempts and reconnection.                      *)
(***************************************************************************)
\* C21: connect() of a render whose base address cannot be parsed as a URL
\* ends with connectionState error and the diagnostic set, constructs no
\* socket, leaves the handle alone and schedules no reconnect timer.
C21_BadAddressNotRetried ==
  url = "bad" =>
    LET h == connect(Cur, url) IN
      /\ h.connectionState = "error"
      /\ h.error = "Failed to establish connection"
      /\ h.status = status
      /\ h.wsRef = wsRef
      /\ h.timers = timers
      /\ h.reconnectTimeoutRef = reconnectTimeoutRef
      /\ h.reconnectAttempts = reconnectAttempts

\* C22: in the merged feed every message whose timestamp is missing or
\* cannot be parsed comes after all messages with a parseable timestamp,
\* and these are in non-decreasing timestamp order.
C22_UnparseableSortLast ==
  rendered =>
    \A j, k \in 1..Len(uniqueMessages) :
      j < k =>
        /\ uniqueMessages[j].timestamp = NaN
              => uniqueMessages[k].timestamp = NaN
        /\ (uniqueMessages[j].timestamp # NaN
              /\ uniqueMessages[k].timestamp # NaN)
              => uniqueMessages[j].timestamp <= uniqueMessages[k].timestamp

\* C23: whenever a socket opens, in the resulting state connectionState is
\* connected, the retry counter is zero, the heartbeat timer is running and
\* the outbound queue is empty, every entry it held having been handed to
\* that socket in queue order.
C23_OpenPostcondition ==
  [][\A s \in SockIds : OpenStep(s) =>
       /\ connectionState' = "connected"
       /\ reconnectAttempts' = 0
       /\ heartbeatIntervalRef'
       /\ messageQueue' = <<>>
       /\ Len(sentLog') = Len(sentLog) + Len(messageQueue)
       /\ \A k \in 1..Len(messageQueue) :
            /\ sentLog'[Len(sentLog) + k].msg = messageQueue[k]
            /\ sentLog'[Len(sentLog) + k].sock = s]_vars

\* C23 witness: after a failed first socket and an automatic retry the
\* second socket opened and took the two queued messages
C23_Witness ==
  /\ status[1] = "CLOSED" /\ status[2] = "OPEN"
  /\ connectionState = "connected"
  /\ reconnectAttempts = 0
  /\ heartbeatIntervalRef
  /\ messageQueue = <<>>
  /\ Len(sentLog) = 2
  /\ \A k \in 1..2 : sentLog[k].sock = 2 /\ sentLog[k].via = "queue"

\* the close codes after which a reconnection is attempted
Retryable == CloseCodes \ {NORMAL_CLOSURE, AUTH_REJECTED, RATE_LIMITED}

\* a step in which the callback of a reconnect timer runs: no other step
\* increments the retry counter
TimerStep == reconnectAttempts' = reconnectAttempts + 1

\* C24: the close of a socket with a retryable code while the retry counter
\* is below the ceiling sets connectionState to reconnecting and schedules
\* exactly one reconnect timer; and when a reconnect timer fires while the
\* hook is still reconnecting, a new connection attempt follows: a socket
\* is constructed and connectionState is connecting.
C24_RetryableCloseReconnects ==
  /\ [](\A s \in Closable, code \in Retryable :
          reconnectAttempts < MAX_RECONNECT_ATTEMPTS =>
            LET h == onclose(Cur, s, code) IN
              /\ h.connectionState = "reconnecting"
              /\ s \notin timers
              /\ h.timers = timers \cup {s}
              /\ h.reconnectTimeoutRef = s)
  /\ [][(TimerStep /\ connectionState = "reconnecting") =>
          /\ connectionState' = "connecting"
          /\ NumSockets(Cur)' = NumSockets(Cur) + 1]_vars

\* the delays of the backoff policy, by the retry counter at the close
ExpectedDelay(k) ==
  CASE k = 0 -> 1000
    [] k = 1 -> 2000
    [] k = 2 -> 5000
    [] k = 3 -> 10000
    [] OTHER -> 30000

\* C25: the reconnect timer scheduled by a close waits 1s, 2s, 5s, 10s, 30s
\* for the retry counter 0..4 at the close and 30s beyond; the delays of the
\* timers scheduled since the last open or teardown never decrease; and the
\* callback of a timer increments the retry counter exactly once.
C25_BackoffDelays ==
  /\ [](\A s \in Closable, code \in CloseCodes :
          LET h == onclose(Cur, s, code) IN
            h.timers # timers => h.lastDelay = ExpectedDelay(reconnectAttempts))
  /\ [][(lastDelay # 0 /\ lastDelay' # 0) => lastDelay' >= lastDelay]_vars
  /\ [](\A s \in timers :
          reconnectTimer(Cur, s).reconnectAttempts = reconnectAttempts + 1)

\* C25 witness: the fifth consecutive failure scheduled a timer of 30s
C25_Witness ==
  /\ lastDelay = 30000
  /\ reconnectAttempts = 4
  /\ connectionState = "reconnecting"
  /\ timers # {}

\* C26: in every reachable state connectionState is connected if and only if
\* the handle held by the hook is an open socket.
C26_ConnectedIffHandleOpen ==
  connectionState = "connected" <=> WsOpen(Cur)

\* C27: at any time at most one reconnect timer is pending, and it is the
\* one recorded in reconnectTimeoutRef.
C27_SinglePendingTimer ==
  /\ Cardinality(timers) <= 1
  /\ \A s \in timers : s = reconnectTimeoutRef

\* C28: the retry counter always lies between 0 and MAX_RECONNECT_ATTEMPTS
\* inclusive; it counts the automatic connection attempts made since the
\* last open or teardown.
C28_CounterWithinCeiling ==
  reconnectAttempts \in 0..MAX_RECONNECT_ATTEMPTS

(***************************************************************************)
(* Claims about the chat of a message and the length of its content.       *)
(***************************************************************************)
\* C29: a message composed for one chat is never transmitted on a socket
\* constructed for another chat, and while the hook is mounted on a chat the
\* outbound queue holds no entry composed for another chat.
C29_QueueFollowsChat ==
  /\ \A k \in 1..Len(sentLog) :
       sentLog[k].msg.chatId = sockUrl[sentLog[k].sock]
  /\ url \in Chats =>
       \A k \in 1..Len(messageQueue) : messageQueue[k].chatId = url

\* C30: the content of every message in the inbound store, and of every
\* message transmitted or queued by sendMessage, has at most
\* MAX_MESSAGE_LENGTH characters.
C30_SanitizedWithinLimit ==
  /\ \A k \in 1..Len(messages) :
       Len(messages[k].content) <= MAX_MESSAGE_LENGTH
  /\ \A k \in 1..Len(messageQueue) :
       Len(messageQueue[k].content) <= MAX_MESSAGE_LENGTH
  /\ \A k \in 1..Len(sentLog) :
       Len(sentLog[k].msg.content) <= MAX_MESSAGE_LENGTH
====
